---- MODULE Spec2Model ----
(***************************************************************************)
(* Single-cell analysis pipeline: the shared processing module             *)
(* (shared_utils/sc_processor.py), the clustering benchmark                *)
(* (shared_utils/sc_clustering.py) and the index bookkeeping of the        *)
(* per-dataset loaders (Datasets/<accession>/sc_loader.py).                *)
(*                                                                         *)
(* A pandas DataFrame is the record                                        *)
(*     [index |-> row labels, columns |-> column labels, values |-> rows]  *)
(* with positional rows, so that duplicate labels are representable.       *)
(* An expression matrix is genes x samples.                                *)
(***************************************************************************)
EXTENDS Integers, Sequences, FiniteSets, TLC

VARIABLES pc, prev, args, df, aux, exc, ld, bm

vars == <<pc, prev, args, df, aux, exc, ld, bm>>

(***************************************************************************)
(* Bounds of the model.                                                    *)
(***************************************************************************)
\* Largest number of samples (columns) of a raw matrix.
MaxSamples == 3

\* Gene rows of the raw matrices: up to this many genes, a fixed label set.
GeneIds == {1, 2}

MaxGenes == Cardinality(GeneIds)

\* TPM values of the raw matrices.  x + 1 is a power of two for each, so
\* that log2(x + 1) is an integer and ln(x + 1) an integer multiple of ln 2.
TpmValues == {0, 3}

\* min_tpm values tried: the default (sc_processor.py:15) and a raw value,
\* which separates "strictly greater" from "at least".
MinTpmValues == {1, 3}

GeneLabel(i) == <<"gene", i>>

SampleLabel(j) == <<"GSM", j>>

(***************************************************************************)
(* Sequence helpers.                                                       *)
(***************************************************************************)
Range(s) == {s[i] : i \in 1..Len(s)}

SeqSum(s) ==
    LET F[i \in 0..Len(s)] == IF i = 0 THEN 0 ELSE F[i - 1] + s[i]
    IN  F[Len(s)]

\* Boolean-mask selection: the elements of s at the positions where mask is
\* TRUE, in order (df.loc[mask], df.loc[:, mask]).
MaskSelect(s, mask) ==
    LET F[i \in 0..Len(s)] ==
            IF i = 0 THEN <<>>
            ELSE IF mask[i] THEN Append(F[i - 1], s[i]) ELSE F[i - 1]
    IN  F[Len(s)]

\* Concatenation of a sequence of sequences.
Flatten(ss) ==
    LET F[i \in 0..Len(ss)] == IF i = 0 THEN <<>> ELSE F[i - 1] \o ss[i]
    IN  F[Len(ss)]

\* The positions of s holding x, ascending.
PositionsOf(s, x) == MaskSelect([i \in 1..Len(s) |-> i], [i \in 1..Len(s) |-> s[i] = x])

\* The distinct elements of s in order of first occurrence (Index.unique).
Unique(s) == MaskSelect(s, [i \in 1..Len(s) |-> \A j \in 1..(i - 1) : s[j] # s[i]])

HasDuplicates(s) == \E i, j \in 1..Len(s) : i < j /\ s[i] = s[j]

(***************************************************************************)
(* DataFrame helpers.                                                      *)
(***************************************************************************)
\* pd.DataFrame().  The field unit names the real number of which every
\* stored value is an integer multiple: "1", or "ln2" after a natural-log
\* transform of values x with x + 1 a power of two.
EmptyDataFrame == [index |-> <<>>, columns |-> <<>>, values |-> <<>>, unit |-> "1"]

\* DataFrame.empty: some axis has length 0.
IsEmpty(d) == Len(d.index) = 0 \/ Len(d.columns) = 0

Column(d, j) == [i \in 1..Len(d.index) |-> d.values[i][j]]

\* df.loc[:, mask] and df.loc[mask, :]
SelectColumns(d, mask) ==
    [d EXCEPT !.columns = MaskSelect(d.columns, mask),
              !.values  = [i \in 1..Len(d.index) |-> MaskSelect(d.values[i], mask)]]

SelectRows(d, mask) ==
    [d EXCEPT !.index  = MaskSelect(d.index, mask),
              !.values = MaskSelect(d.values, mask)]

\* df.T
Transpose(d) ==
    [d EXCEPT !.index   = d.columns,
              !.columns = d.index,
              !.values  = [j \in 1..Len(d.columns) |-> Column(d, j)]]

\* df.loc[labels]: for each label in turn, every row carrying it.
LocRows(d, labels) ==
    LET pos == Flatten([k \in 1..Len(labels) |-> PositionsOf(d.index, labels[k])])
    IN  [d EXCEPT !.index  = [k \in 1..Len(pos) |-> d.index[pos[k]]],
                  !.values = [k \in 1..Len(pos) |-> d.values[pos[k]]]]

\* Index.intersection(other), sort=False: the labels of self that occur in
\* other, each once, in the order of self.
IndexIntersection(self, other) ==
    Unique(MaskSelect(self, [i \in 1..Len(self) |-> self[i] \in Range(other)]))

(***************************************************************************)
(* filter_tpm_matrix: sample QC on the input, then gene QC on the kept     *)
(* samples.  Returns (df_final, qc_metrics).                               *)
(***************************************************************************)
\* The per-sample count with "at least min_tpm" for "above min_tpm".
DetectedPerSample_AtLeast(d, min_tpm) ==
    [j \in 1..Len(d.columns) |->
        SeqSum([i \in 1..Len(d.index) |-> IF d.values[i][j] >= min_tpm THEN 1 ELSE 0])]

\* (df > min_tpm).sum(axis=0)
DetectedPerSample(d, min_tpm) ==
    [j \in 1..Len(d.columns) |->
        SeqSum([i \in 1..Len(d.index) |-> IF d.values[i][j] > min_tpm THEN 1 ELSE 0])]

\* (df > min_tpm).sum(axis=1)
DetectedPerGene(d, min_tpm) ==
    [i \in 1..Len(d.index) |->
        SeqSum([j \in 1..Len(d.columns) |-> IF d.values[i][j] > min_tpm THEN 1 ELSE 0])]

QcMetrics(df_final, n_genes_detected) ==
    [index   |-> df_final.columns,
     columns |-> <<"n_genes_detected", "total_tpm">>,
     values  |-> [j \in 1..Len(df_final.columns) |->
                    <<n_genes_detected[j], SeqSum(Column(df_final, j))>>],
     unit    |-> df_final.unit]

\* filter_tpm_matrix with the gene count taken over all input samples.
filter_tpm_matrix_GeneQcOnInput(d, min_tpm, min_genes_per_sample, min_samples_per_gene) ==
    IF IsEmpty(d)
    THEN [exc |-> FALSE, df |-> EmptyDataFrame, aux |-> EmptyDataFrame]
    ELSE
      LET genes_detected      == DetectedPerSample(d, min_tpm)
          samples_mask        == [j \in 1..Len(d.columns) |->
                                    genes_detected[j] >= min_genes_per_sample]
          df_filtered_samples == SelectColumns(d, samples_mask)
      IN  IF IsEmpty(df_filtered_samples)
          THEN [exc |-> FALSE, df |-> EmptyDataFrame, aux |-> EmptyDataFrame]
          ELSE
            LET samples_per_gene == DetectedPerGene(d, min_tpm)
                genes_mask       == [i \in 1..Len(d.index) |->
                                        samples_per_gene[i] >= min_samples_per_gene]
                df_final         == SelectRows(df_filtered_samples, genes_mask)
            IN  [exc |-> FALSE,
                 df  |-> df_final,
                 aux |-> QcMetrics(df_final, MaskSelect(genes_detected, samples_mask))]

filter_tpm_matrix(d, min_tpm, min_genes_per_sample, min_samples_per_gene) ==
    IF IsEmpty(d)
    THEN [exc |-> FALSE, df |-> EmptyDataFrame, aux |-> EmptyDataFrame]
    ELSE
      LET genes_detected      == DetectedPerSample(d, min_tpm)
          samples_mask        == [j \in 1..Len(d.columns) |->
                                    genes_detected[j] >= min_genes_per_sample]
          df_filtered_samples == SelectColumns(d, samples_mask)
      IN  IF IsEmpty(df_filtered_samples)
          THEN [exc |-> FALSE, df |-> EmptyDataFrame, aux |-> EmptyDataFrame]
          ELSE
            LET samples_per_gene == DetectedPerGene(df_filtered_samples, min_tpm)
                genes_mask       == [i \in 1..Len(d.index) |->
                                        samples_per_gene[i] >= min_samples_per_gene]
                df_final         == SelectRows(df_filtered_samples, genes_mask)
            IN  [exc |-> FALSE,
                 df  |-> df_final,
                 aux |-> QcMetrics(df_final, MaskSelect(genes_detected, samples_mask))]

(***************************************************************************)
(* log_transform: np.log2(df + 1) or np.log1p(df), the input itself when   *)
(* it is empty.                                                            *)
(***************************************************************************)
\* log2(x + 1), for x + 1 a power of two.
Log2Plus1(x) == CHOOSE k \in 0..x : 2 ^ k = x + 1

log_transform(d, method) ==
    IF IsEmpty(d)
    THEN [exc |-> FALSE, df |-> d, aux |-> EmptyDataFrame]
    ELSE
      LET logged == [i \in 1..Len(d.index) |->
                        [j \in 1..Len(d.columns) |-> Log2Plus1(d.values[i][j])]]
      IN  [exc |-> FALSE,
           \* ln(x + 1) = log2(x + 1) * ln 2
           df  |-> [d EXCEPT !.values = logged,
                             !.unit = IF method = "log2" THEN "1" ELSE "ln2"],
           aux |-> EmptyDataFrame]

(***************************************************************************)
(* select_highly_variable_genes.  Statistics are kept exact: for a gene    *)
(* with values x_1..x_n (in the matrix's unit u), S = sum x_i and          *)
(* D = n * sum x_i^2 - S^2, so that mean = u*S/n and the sample variance   *)
(* (ddof = 1) is u^2 * D / (n(n-1)), NaN when n = 1.                       *)
(***************************************************************************)
RowS(row) == SeqSum(row)

RowD(row) == Len(row) * SeqSum([j \in 1..Len(row) |-> row[j] * row[j]]) - SeqSum(row) * SeqSum(row)

\* df.mean(axis=1)
MeanExpr(d) == [i \in 1..Len(d.index) |-> [num |-> RowS(d.values[i]), den |-> Len(d.columns)]]

\* df.var(axis=1): NaN for a single observation.
VarExpr(d) ==
    [i \in 1..Len(d.index) |->
        [nan |-> Len(d.columns) = 1,
         num |-> RowD(d.values[i]),
         den |-> Len(d.columns) * (Len(d.columns) - 1)]]

\* Ranking by variance alone.
Dispersion_VarianceOnly(d) ==
    [i \in 1..Len(d.index) |->
        [D |-> IF Len(d.columns) = 1 THEN 0 ELSE RowD(d.values[i]),
         S |-> 1,
         n |-> Len(d.columns)]]

\* dispersion = var_expr / (mean_expr + epsilon), then fillna(0).  The entry
\* [D, S, n] stands for u * D / ((n - 1) * (S + n * epsilon / u)), and for 0
\* when the variance was NaN (D is then 0).
Dispersion(d) ==
    [i \in 1..Len(d.index) |->
        [D |-> IF Len(d.columns) = 1 THEN 0 ELSE RowD(d.values[i]),
         S |-> RowS(d.values[i]),
         n |-> Len(d.columns)]]

\* a > b for two entries of one dispersion Series (same n and u, S >= 0):
\* a.D * (b.S + n*eps/u) > b.D * (a.S + n*eps/u).  With epsilon = 1e-9
\* (sc_processor.py:97) and n * |a.D - b.D| * 1e-9 / u < 1 the integer cross
\* product decides, and the epsilon term decides when it is 0.
DispersionGt(a, b) ==
    \/ a.D * b.S > b.D * a.S
    \/ a.D * b.S = b.D * a.S /\ a.D > b.D

\* Series.nlargest(n), keep='first': the positions of the n largest values,
\* largest first, equal values in order of position.
NLargest(s, n) ==
    LET Best(left) == CHOOSE i \in left :
                          \A j \in left \ {i} :
                              \/ DispersionGt(s[i], s[j])
                              \/ ~DispersionGt(s[j], s[i]) /\ i < j
        F[k \in 0..Len(s)] ==
            IF k = 0 THEN <<>>
            ELSE Append(F[k - 1], Best((1..Len(s)) \ Range(F[k - 1])))
    IN  IF n <= 0 THEN <<>> ELSE F[IF n < Len(s) THEN n ELSE Len(s)]

Min(a, b) == IF a < b THEN a ELSE b

select_highly_variable_genes(d, n_top_genes_arg) ==
    IF IsEmpty(d)
    THEN [exc |-> FALSE, df |-> EmptyDataFrame, aux |-> EmptyDataFrame]
    ELSE
      LET mean_expr   == MeanExpr(d)
          var_expr    == VarExpr(d)
          dispersion  == Dispersion(d)
          n_top_genes == Min(n_top_genes_arg, Len(dispersion))
          top         == NLargest(dispersion, n_top_genes)
          hvg_indices == [k \in 1..Len(top) |-> d.index[top[k]]]
          df_hvg      == LocRows(d, hvg_indices)
          metrics     ==
              [index   |-> d.index,
               columns |-> <<"mean", "variance", "dispersion", "is_hvg">>,
               values  |-> [i \in 1..Len(d.index) |->
                              <<mean_expr[i], var_expr[i], dispersion[i],
                                d.index[i] \in Range(hvg_indices)>>],
               unit    |-> d.unit]
      IN  [exc |-> FALSE, df |-> df_hvg, aux |-> metrics]

(***************************************************************************)
(* scale_data: StandardScaler over the transposed matrix, transposed back. *)
(***************************************************************************)
\* sklearn's check_array: an estimator raises ValueError on an array with
\* no sample or no feature.
CheckArrayRaises(X) == Len(X.index) = 0 \/ Len(X.columns) = 0

\* StandardScaler().fit_transform(X), X samples x features: each feature is
\* centred on its mean and divided by its population standard deviation,
\* which is replaced by 1 when it is 0.  With n samples, S and D as above,
\* z = (n*x - S) / sqrt(D), and z = (n*x - S) / sqrt(n*n) when D = 0; the
\* entry [num, den2] stands for num / sqrt(den2).
StandardScaler_fit_transform(X) ==
    IF CheckArrayRaises(X) THEN [exc |-> TRUE]
    ELSE
      LET n       == Len(X.index)
          feat(j) == Column(X, j)
          var0(j) == RowD(feat(j)) = 0
      IN  [exc    |-> FALSE,
           values |-> [i \in 1..n |->
                        [j \in 1..Len(X.columns) |->
                            [num  |-> n * X.values[i][j] - RowS(feat(j)),
                             den2 |-> IF var0(j) THEN n * n ELSE RowD(feat(j))]]]]

\* scale_data without its guard on an empty input.
scale_data_NoGuard(d) ==
    LET X      == Transpose(d)
        scaled == StandardScaler_fit_transform(X)
    IN  IF scaled.exc
        THEN [exc |-> TRUE, df |-> EmptyDataFrame, aux |-> EmptyDataFrame]
        ELSE [exc |-> FALSE,
              df  |-> [index   |-> d.index,
                       columns |-> d.columns,
                       values  |-> Transpose([X EXCEPT !.values = scaled.values]).values,
                       unit    |-> "1"],
              aux |-> EmptyDataFrame]

\* scale_data with the scaler applied to the genes x samples matrix itself.
scale_data_NoTranspose(d) ==
    IF IsEmpty(d)
    THEN [exc |-> FALSE, df |-> EmptyDataFrame, aux |-> EmptyDataFrame]
    ELSE
      LET scaled == StandardScaler_fit_transform(d)
      IN  IF scaled.exc
          THEN [exc |-> TRUE, df |-> EmptyDataFrame, aux |-> EmptyDataFrame]
          ELSE [exc |-> FALSE,
                df  |-> [index   |-> d.index,
                         columns |-> d.columns,
                         values  |-> scaled.values,
                         unit    |-> "1"],
                aux |-> EmptyDataFrame]

scale_data(d) ==
    IF IsEmpty(d)
    THEN [exc |-> FALSE, df |-> EmptyDataFrame, aux |-> EmptyDataFrame]
    ELSE
      LET X      == Transpose(d)
          scaled == StandardScaler_fit_transform(X)
      IN  IF scaled.exc
          THEN [exc |-> TRUE, df |-> EmptyDataFrame, aux |-> EmptyDataFrame]
          ELSE [exc |-> FALSE,
                df  |-> [index   |-> d.index,
                         columns |-> d.columns,
                         values  |-> Transpose([X EXCEPT !.values = scaled.values]).values,
                         unit    |-> "1"],
                aux |-> EmptyDataFrame]

(***************************************************************************)
(* run_pca_pipeline.  Returns (df_pca, explained_variance_ratio_, pca).    *)
(***************************************************************************)
PCName(i) == <<"PC", i>>

\* PCA(n_components=n).fit_transform(X): one row per sample, n coordinates.
\* The coordinates are the library's; they are kept symbolic.
\* ValueError when n exceeds min(n_samples, n_features).
PCA_fit_transform(X, n) ==
    IF CheckArrayRaises(X) \/ n > Len(X.index) \/ n > Len(X.columns) THEN [exc |-> TRUE]
    ELSE [exc    |-> FALSE,
          values |-> [i \in 1..Len(X.index) |-> [c \in 1..n |-> <<"coord", X.index[i], c>>]],
          explained_variance_ratio |-> [c \in 1..n |-> <<"ratio", c>>]]

\* actual_n without the cap by the number of samples.
ActualN_NoSampleCap(n_components, n_samples, n_features) ==
    Min(n_components, n_features)

\* actual_n = min(n_components, n_samples, n_features)
ActualN(n_components, n_samples, n_features) ==
    Min(n_components, Min(n_samples, n_features))

run_pca_pipeline(df_scaled, n_components) ==
    IF IsEmpty(df_scaled)
    THEN [exc |-> FALSE, df |-> EmptyDataFrame,
          aux |-> [explained_variance_ratio |-> <<>>, pca |-> "None"]]
    ELSE
      LET X          == Transpose(df_scaled)
          n_samples  == Len(X.index)
          n_features == Len(X.columns)
          actual_n   == ActualN(n_components, n_samples, n_features)
          fitted     == PCA_fit_transform(X, actual_n)
          pc_cols    == [i \in 1..actual_n |-> PCName(i)]
      IN  IF fitted.exc
          THEN [exc |-> TRUE, df |-> EmptyDataFrame,
                aux |-> [explained_variance_ratio |-> <<>>, pca |-> "None"]]
          ELSE [exc |-> FALSE,
                df  |-> [index   |-> X.index,
                         columns |-> pc_cols,
                         values  |-> fitted.values,
                         unit    |-> "1"],
                aux |-> [explained_variance_ratio |-> fitted.explained_variance_ratio,
                         pca |-> "PCA"]]

(***************************************************************************)
(* run_clustering_benchmark(pca_df, cell_metadata, n_clusters_range,       *)
(* target_cols).  The clustering estimators and the two agreement metrics  *)
(* are library routines: lib gives, for the model fitted at position kpos  *)
(* of n_clusters_range by method m, either that the library raises or the  *)
(* rounded AMI (in thousandths) for every valid target.  The ARI does not  *)
(* decide anything in the code and is kept symbolic.                       *)
(***************************************************************************)
\* The keys of the models dict, in insertion order.
Methods == <<"KMeans", "HClust", "Spectral">>

\* round(ami, 3), in thousandths.
Scores == {0, 1000}

\* model.fit_predict(X) certainly raises on no sample, on k < 1 and on more
\* clusters than samples; otherwise the library decides.
FitMustRaise(k, n_samples) == n_samples = 0 \/ k < 1 \/ k > n_samples

\* adjusted_mutual_info_score(y_true, labels_pred) raises ValueError on
\* inputs of different lengths (check_consistent_length).
ScoreMustRaise(y_true_len, labels_len) == y_true_len # labels_len

\* DataFrame.sort_values(by='AMI_<by>', ascending=False) of the rows:
\* descending, rows with equal keys in their previous order.
SortDescending(rows, by) ==
    LET Key(r) == r.AMI[by]
        Insert(sorted, r) ==
            LET before == MaskSelect(sorted, [i \in 1..Len(sorted) |-> Key(sorted[i]) >= Key(r)])
                after  == MaskSelect(sorted, [i \in 1..Len(sorted) |-> Key(sorted[i]) < Key(r)])
            IN  before \o <<r>> \o after
        F[i \in 0..Len(rows)] == IF i = 0 THEN <<>> ELSE Insert(F[i - 1], rows[i])
    IN  F[Len(rows)]

\* Validation that stops at the first target found in the metadata.
ValidTargets_FirstOnly(target_cols, columns) ==
    LET found == MaskSelect(target_cols,
                     [i \in 1..Len(target_cols) |-> target_cols[i] \in Range(columns)])
    IN  IF found = <<>> THEN <<>> ELSE <<found[1]>>

\* valid_targets = [col for col in target_cols if col in meta_aligned.columns]
ValidTargets(target_cols, columns) ==
    MaskSelect(target_cols, [i \in 1..Len(target_cols) |-> target_cols[i] \in Range(columns)])

\* The try block with the row appended once per target.
TryRow_RowPerTarget(kpos, m, k, pca_aligned, meta_aligned, valid_targets, lib) ==
    LET key == <<kpos, m>>
    IN  IF \/ FitMustRaise(k, Len(pca_aligned.index))
           \/ key \notin DOMAIN lib
           \/ lib[key].raises
           \/ ScoreMustRaise(Len(meta_aligned.index), Len(pca_aligned.index))
        THEN <<>>
        ELSE [i \in 1..Len(valid_targets) |->
                [Method |-> Methods[m],
                 k      |-> k,
                 AMI    |-> [t \in Range(valid_targets) |-> lib[key].ami[t]],
                 ARI    |-> [t \in Range(valid_targets) |-> <<"ari", kpos, m, t>>]]]

\* One pass of the try block for (k at kpos, method m): <<row>>, or <<>> when
\* fitting or scoring raised (the except branch prints and goes on).
TryRow(kpos, m, k, pca_aligned, meta_aligned, valid_targets, lib) ==
    LET key == <<kpos, m>>
    IN  IF \/ FitMustRaise(k, Len(pca_aligned.index))
           \/ key \notin DOMAIN lib
           \/ lib[key].raises
           \/ ScoreMustRaise(Len(meta_aligned.index), Len(pca_aligned.index))
        THEN <<>>
        ELSE <<[Method |-> Methods[m],
                k      |-> k,
                AMI    |-> [t \in Range(valid_targets) |-> lib[key].ami[t]],
                ARI    |-> [t \in Range(valid_targets) |-> <<"ari", kpos, m, t>>]]>>

\* Sorting on the last valid target.
PrimarySortKey_Last(valid_targets) == valid_targets[Len(valid_targets)]

\* primary_sort = f'AMI_{valid_targets[0]}'
PrimarySortKey(valid_targets) == valid_targets[1]

run_clustering_benchmark(pca_df, cell_metadata, n_clusters_range, target_cols, lib) ==
    LET common_index  == IndexIntersection(pca_df.index, cell_metadata.index)
        warned        == Len(common_index) < Len(pca_df.index)
        pca_aligned   == LocRows(pca_df, common_index)
        meta_aligned  == LocRows(cell_metadata, common_index)
        valid_targets == ValidTargets(target_cols, meta_aligned.columns)
    IN  IF valid_targets = <<>>
        THEN [warned |-> warned, clustered |-> <<>>, truth |-> <<>>,
              valid_targets |-> valid_targets, fitted |-> FALSE,
              all_results |-> <<>>, board |-> <<>>]
        ELSE
          LET all_results ==
                  Flatten([kpos \in 1..Len(n_clusters_range) |->
                      Flatten([m \in 1..Len(Methods) |->
                          TryRow(kpos, m, n_clusters_range[kpos], pca_aligned,
                                 meta_aligned, valid_targets, lib)])])
              primary_sort == PrimarySortKey(valid_targets)
              results_df ==
                  IF all_results # <<>>
                  THEN SortDescending(all_results, primary_sort)
                  ELSE all_results
          IN  [warned |-> warned,
               \* the sample IDs of the rows handed to fit_predict, and of the
               \* rows whose labels are handed to the metrics, position by position
               clustered |-> pca_aligned.index,
               truth     |-> meta_aligned.index,
               valid_targets |-> valid_targets,
               fitted    |-> n_clusters_range # <<>>,
               all_results |-> all_results,
               board     |-> results_df]

\* The library behaviours to consider for a call: an outcome for every model
\* that the library is free to fit and whose scoring can go through.
LibChoices(pca_df, cell_metadata, n_clusters_range, target_cols) ==
    LET common_index  == IndexIntersection(pca_df.index, cell_metadata.index)
        n             == Len(LocRows(pca_df, common_index).index)
        ny            == Len(LocRows(cell_metadata, common_index).index)
        vt            == Range(ValidTargets(target_cols, cell_metadata.columns))
        free          == IF vt = {} \/ ScoreMustRaise(ny, n) THEN {}
                         ELSE {key \in (1..Len(n_clusters_range)) \X (1..Len(Methods)) :
                                  ~FitMustRaise(n_clusters_range[key[1]], n)}
        outcomes      == {[raises |-> TRUE, ami |-> [t \in vt |-> 0]]} \cup
                         {[raises |-> FALSE, ami |-> a] : a \in [vt -> Scores]}
    IN  [free -> outcomes]

(***************************************************************************)
(* The pipeline QC -> log -> HVG -> scale -> PCA -> benchmark.             *)
(***************************************************************************)
NoCall == [op |-> "none"]

Idle == [pc |-> "idle"]

\* Raw genes x samples matrices with unique labels, and pd.DataFrame().
RawMatrices ==
    {EmptyDataFrame} \cup
    UNION {UNION {{[index   |-> [i \in 1..g |-> GeneLabel(i)],
                    columns |-> [j \in 1..s |-> SampleLabel(j)],
                    values  |-> v,
                    unit    |-> "1"] : v \in [1..g -> [1..s -> TpmValues]]}
                  : s \in 1..MaxSamples} : g \in 1..MaxGenes}

Init ==
    /\ pc = "raw"
    /\ df \in RawMatrices
    /\ prev = EmptyDataFrame
    /\ args = NoCall
    /\ aux = EmptyDataFrame
    /\ exc = FALSE
    /\ ld = Idle
    /\ bm = Idle

QC ==
    /\ pc = "raw"
    /\ ~exc
    /\ \E min_tpm \in MinTpmValues, min_genes_per_sample \in 0..MaxGenes,
          min_samples_per_gene \in 0..MaxSamples :
          LET r == filter_tpm_matrix(df, min_tpm, min_genes_per_sample,
                                     min_samples_per_gene)
          IN  /\ args' = [op |-> "filter_tpm_matrix", min_tpm |-> min_tpm,
                          min_genes_per_sample |-> min_genes_per_sample,
                          min_samples_per_gene |-> min_samples_per_gene]
              /\ df' = r.df
              /\ aux' = r.aux
              /\ exc' = r.exc
    /\ prev' = df
    /\ pc' = "qc"
    /\ UNCHANGED <<ld, bm>>

Log ==
    /\ pc = "qc"
    /\ ~exc
    /\ \E method \in {"log1p", "log2"} :
          LET r == log_transform(df, method)
          IN  /\ args' = [op |-> "log_transform", method |-> method]
              /\ df' = r.df
              /\ aux' = r.aux
              /\ exc' = r.exc
    /\ prev' = df
    /\ pc' = "log"
    /\ UNCHANGED <<ld, bm>>

HVG ==
    /\ pc = "log"
    /\ ~exc
    /\ \E n_top_genes \in 0..(MaxGenes + 1) :
          LET r == select_highly_variable_genes(df, n_top_genes)
          IN  /\ args' = [op |-> "select_highly_variable_genes",
                          n_top_genes |-> n_top_genes]
              /\ df' = r.df
              /\ aux' = r.aux
              /\ exc' = r.exc
    /\ prev' = df
    /\ pc' = "hvg"
    /\ UNCHANGED <<ld, bm>>

Scale ==
    /\ pc = "hvg"
    /\ ~exc
    /\ LET r == scale_data(df)
       IN  /\ args' = [op |-> "scale_data"]
           /\ df' = r.df
           /\ aux' = r.aux
           /\ exc' = r.exc
    /\ prev' = df
    /\ pc' = "scaled"
    /\ UNCHANGED <<ld, bm>>

PCAStep ==
    /\ pc = "scaled"
    /\ ~exc
    /\ \E n_components \in 1..(MaxGenes + 1) :
          LET r == run_pca_pipeline(df, n_components)
          IN  /\ args' = [op |-> "run_pca_pipeline", n_components |-> n_components]
              /\ df' = r.df
              /\ aux' = r.aux
              /\ exc' = r.exc
    /\ prev' = df
    /\ pc' = "pca"
    /\ UNCHANGED <<ld, bm>>

\* A metadata table: one row per entry of index, one ground-truth label per
\* column, kept symbolic (the label of row i is the label of sample index[i]).
Metadata(index, columns) ==
    [index   |-> index,
     columns |-> columns,
     values  |-> [i \in 1..Len(index) |->
                    [c \in 1..Len(columns) |-> <<"truth", index[i], i, columns[c]>>]],
     unit    |-> "1"]

BenchmarkReturn(pca_df, cell_metadata, n_clusters_range, target_cols, lib) ==
    [pc               |-> "returned",
     pca_index        |-> pca_df.index,
     meta_index       |-> cell_metadata.index,
     meta_columns     |-> cell_metadata.columns,
     n_clusters_range |-> n_clusters_range,
     target_cols      |-> target_cols,
     lib              |-> lib,
     ret              |-> run_clustering_benchmark(pca_df, cell_metadata,
                                                   n_clusters_range, target_cols, lib)]

\* The benchmark on the PCA coordinates of the pipeline, against a metadata
\* table that covers the first s samples of the study.
Benchmark ==
    /\ pc = "pca"
    /\ ~exc
    /\ \E s \in 0..MaxSamples, k \in 1..2 :
          LET cell_metadata == Metadata([j \in 1..s |-> SampleLabel(j)], <<"Stage">>)
          IN  \E lib \in LibChoices(df, cell_metadata, <<k>>, <<"Stage">>) :
                /\ bm' = BenchmarkReturn(df, cell_metadata, <<k>>, <<"Stage">>, lib)
                /\ args' = [op |-> "run_clustering_benchmark"]
    /\ prev' = df
    /\ pc' = "bench"
    /\ UNCHANGED <<df, aux, exc, ld>>

Next == QC \/ Log \/ HVG \/ Scale \/ PCAStep \/ Benchmark

Spec == Init /\ [][Next]_vars

(***************************************************************************)
(* The benchmark on its own: calls of run_clustering_benchmark on index    *)
(* sequences that may repeat a sample ID, on any choice of metadata        *)
(* columns, target columns and cluster numbers.                            *)
(***************************************************************************)
\* Longest index of a PCA table or metadata table handed to the benchmark.
MaxIdx == 2

\* Longest n_clusters_range.
MaxRange == 1

BenchSampleIds == {SampleLabel(1), SampleLabel(2)}

TargetNames == {"Stage", "Cross"}

KValues == {1, 2, 3}

SeqsUpTo(S, n) == UNION {[1..m -> S] : m \in 0..n}

\* Sequences over TargetNames without repetition.
TargetSeqs == {s \in SeqsUpTo(TargetNames, Cardinality(TargetNames)) : ~HasDuplicates(s)}

AlignedIndex == <<SampleLabel(1), SampleLabel(2)>>

\* A PCA table with the given index: two symbolic coordinates per sample.
PcaTable(index) ==
    [index   |-> index,
     columns |-> <<PCName(1), PCName(2)>>,
     values  |-> [i \in 1..Len(index) |-> [c \in 1..2 |-> <<"coord", index[i], c>>]],
     unit    |-> "1"]

BenchCall(pi, mi, mc, ks, tc) ==
    [pc |-> "call", pca_index |-> pi, meta_index |-> mi, meta_columns |-> mc,
     n_clusters_range |-> ks, target_cols |-> tc]

\* Three families of calls: the two indexes vary (one target, k = 1); the
\* metadata columns and the targets vary (aligned indexes, k = 2); the
\* cluster numbers vary, beyond the number of samples too (aligned indexes,
\* one target).
BenchCalls ==
    {BenchCall(pi, mi, <<"Stage">>, ks, <<"Stage">>) :
        pi \in SeqsUpTo(BenchSampleIds, MaxIdx), mi \in SeqsUpTo(BenchSampleIds, MaxIdx),
        ks \in SeqsUpTo({1}, MaxRange)}
    \cup
    {BenchCall(AlignedIndex, AlignedIndex, mc, ks, tc) :
        mc \in TargetSeqs, ks \in SeqsUpTo({2}, MaxRange), tc \in TargetSeqs}
    \cup
    {BenchCall(AlignedIndex, AlignedIndex, <<"Stage">>, ks, <<"Stage">>) :
        ks \in SeqsUpTo(KValues, MaxRange)}

InitBench ==
    /\ pc = "idle"
    /\ df = EmptyDataFrame
    /\ prev = EmptyDataFrame
    /\ args = NoCall
    /\ aux = EmptyDataFrame
    /\ exc = FALSE
    /\ ld = Idle
    /\ bm \in BenchCalls

BenchmarkCall ==
    /\ pc = "idle"
    /\ bm.pc = "call"
    /\ LET pca_df        == PcaTable(bm.pca_index)
           cell_metadata == Metadata(bm.meta_index, bm.meta_columns)
       IN  \E lib \in LibChoices(pca_df, cell_metadata, bm.n_clusters_range, bm.target_cols) :
             bm' = BenchmarkReturn(pca_df, cell_metadata, bm.n_clusters_range,
                                   bm.target_cols, lib)
    /\ UNCHANGED <<pc, prev, args, df, aux, exc, ld>>

NextBench == BenchmarkCall

SpecBench == InitBench /\ [][NextBench]_vars

(***************************************************************************)
(* The dataset loaders, reduced to what decides the labels they return:    *)
(* files is the sequence of sample IDs of the expression files that load,  *)
(* in listing order (two files may carry one ID), and sra is the run table *)
(* or series matrix: "unreadable", or one row per run with the sample it   *)
(* belongs to, its cell_type and whether it is a single-cell run.  Each    *)
(* loader returns the matrix columns and the metadata index, or raises.    *)
(***************************************************************************)
\* Most expression files, most run-table rows.
MaxFiles == 2

MaxRuns == 2

LoaderSampleIds == {1, 2}

\* The sample ID that stands for the hard-coded control samples of GSE52583.
BULK_CONTROL_GSMS == {2}

SraRows == [name : LoaderSampleIds, cell_type : {"A", "B"}, single_cell : BOOLEAN]

Unreadable == <<[name |-> 0, cell_type |-> "unreadable", single_cell |-> FALSE]>>

SraTables == {Unreadable} \cup SeqsUpTo(SraRows, MaxRuns)

Names(sra) == IF sra = Unreadable THEN <<>> ELSE [i \in 1..Len(sra) |-> sra[i].name]

Raised == [raised |-> TRUE, columns |-> <<>>, meta_index |-> <<>>]

Returned(columns, meta_index) ==
    [raised |-> FALSE, columns |-> columns, meta_index |-> meta_index]

\* The labels of S ascending (groupby keys, pivot_table columns).
SortedSeq(S) ==
    CHOOSE q \in [1..Cardinality(S) -> S] : \A i, j \in 1..Cardinality(S) : i < j => q[i] < q[j]

\* index.loc[labels] on a bare index.
IndexLoc(index, labels) ==
    LocRows([index |-> index, columns |-> <<>>, values |-> index, unit |-> "1"], labels).index

\* pd.merge(left, right, how='left') on a key: every left row in order, once
\* per right row with its key, once (unmatched) when there is none.
MergeLeft(left_keys, right_keys) ==
    Flatten([i \in 1..Len(left_keys) |->
        LET hits == PositionsOf(right_keys, left_keys[i])
        IN  IF hits = <<>> THEN <<[key |-> left_keys[i], right |-> 0]>>
            ELSE [h \in 1..Len(hits) |-> [key |-> left_keys[i], right |-> hits[h]]]])

\* GSE42268: the matrix is built from a dict keyed by sample ID, the metadata
\* from one entry per file, left-merged with the run table when it exists.
load_gse42268_data(files, sra) ==
    IF files = <<>> THEN Raised
    ELSE
      LET expression_columns == Unique(files)
          local_meta         == files
      IN  IF sra # Unreadable
          THEN LET metadata_merged == MergeLeft(local_meta, Names(sra))
               IN  Returned(expression_columns,
                            [i \in 1..Len(metadata_merged) |-> metadata_merged[i].key])
          ELSE Returned(expression_columns, local_meta)

\* Index.reindex(target): the index itself when it equals the target,
\* otherwise the target, and ValueError on an index with duplicate labels.
Reindex(index, target) ==
    IF index = target THEN [raised |-> FALSE, index |-> index]
    ELSE IF HasDuplicates(index) THEN [raised |-> TRUE, index |-> <<>>]
    ELSE [raised |-> FALSE, index |-> target]

\* GSE45719: one column per file, one metadata row per column, reindexed on
\* the columns.
load_gse45719_data(files, sra) ==
    IF files = <<>> THEN Raised
    ELSE
      LET expression_columns == files
      IN  IF sra = Unreadable
          THEN Returned(expression_columns, expression_columns)
          ELSE LET metadata_index == expression_columns
                   re             == Reindex(metadata_index, expression_columns)
               IN  IF re.raised THEN Raised
                   ELSE Returned(expression_columns, re.index)

\* GSE52583: one metadata row per column; with filter_single_cells the
\* controls are dropped from both by label.
load_gse52583_data(files, sra, filter_single_cells) ==
    IF files = <<>> THEN Raised
    ELSE
      LET raw_columns == files
          meta_index  == raw_columns
      IN  IF filter_single_cells
          THEN LET single_cell   == MaskSelect(meta_index,
                                       [i \in 1..Len(meta_index) |->
                                           meta_index[i] \notin BULK_CONTROL_GSMS])
                   valid_samples == IndexIntersection(single_cell, raw_columns)
               IN  Returned(IndexLoc(raw_columns, valid_samples),
                            IndexLoc(meta_index, valid_samples))
          ELSE Returned(raw_columns, meta_index)

\* GSE55291: the long table is left-merged with the run table and cut to the
\* single-cell runs; the matrix is its pivot, the metadata its distinct
\* (sample, cell_type, technology) rows, looked up by the pivot's columns.
load_dataset_5(files, sra) ==
    IF sra = Unreadable \/ files = <<>> THEN Raised
    ELSE
      LET merged_df  == MergeLeft(files, Names(sra))
          sc_subset  == MaskSelect(merged_df,
                            [i \in 1..Len(merged_df) |->
                                merged_df[i].right # 0 /\ sra[merged_df[i].right].single_cell])
          meta_rows  == Unique([i \in 1..Len(sc_subset) |->
                            <<sc_subset[i].key, sra[sc_subset[i].right].cell_type>>])
          expression_columns == SortedSeq({sc_subset[i].key : i \in 1..Len(sc_subset)})
          metadata_final     == [i \in 1..Len(meta_rows) |-> meta_rows[i][1]]
      IN  Returned(expression_columns, IndexLoc(metadata_final, expression_columns))

\* GSE65528: the matrix is a pivot (columns ascending, each once), the
\* metadata one row per sample of the series matrix; both are cut to the
\* common cells.  A series matrix that cannot be parsed gives an empty table,
\* whose missing TimePoint column raises KeyError.
load_gse65528_data(files, sra) ==
    IF files = <<>> \/ sra = Unreadable \/ sra = <<>> THEN Raised
    ELSE
      LET expression_columns == SortedSeq(Range(files))
          meta_index         == Names(sra)
          common_cells       == IndexIntersection(expression_columns, meta_index)
      IN  Returned(IndexLoc(expression_columns, common_cells),
                   IndexLoc(meta_index, common_cells))

\* GSE74596: the metadata is grouped by sample (keys ascending, each once),
\* empty when the run table cannot be read; without a common ID the loader
\* returns both tables as they are.
load_gse74596_data(files, sra) ==
    IF files = <<>> THEN Raised
    ELSE
      LET meta_index == SortedSeq(Range(Names(sra)))
          raw_counts == files
          common     == IndexIntersection(raw_counts, meta_index)
      IN  IF Len(common) = 0
          THEN Returned(raw_counts, meta_index)
          ELSE Returned(IndexLoc(raw_counts, common), IndexLoc(meta_index, common))

LoadCalls ==
    {[pc |-> "call", files |-> f, sra |-> s] :
        f \in SeqsUpTo(LoaderSampleIds, MaxFiles), s \in SraTables}

LoadReturn(loader, r) ==
    [pc         |-> IF r.raised THEN "raised" ELSE "returned",
     loader     |-> loader,
     files      |-> ld.files,
     sra        |-> ld.sra,
     columns    |-> r.columns,
     meta_index |-> r.meta_index]

InitLoad ==
    /\ pc = "idle"
    /\ df = EmptyDataFrame
    /\ prev = EmptyDataFrame
    /\ args = NoCall
    /\ aux = EmptyDataFrame
    /\ exc = FALSE
    /\ ld \in LoadCalls
    /\ bm = Idle

Load42268 ==
    /\ ld.pc = "call"
    /\ ld' = LoadReturn("load_gse42268_data", load_gse42268_data(ld.files, ld.sra))
    /\ UNCHANGED <<pc, prev, args, df, aux, exc, bm>>

Load45719 ==
    /\ ld.pc = "call"
    /\ ld' = LoadReturn("load_gse45719_data", load_gse45719_data(ld.files, ld.sra))
    /\ UNCHANGED <<pc, prev, args, df, aux, exc, bm>>

Load52583 ==
    /\ ld.pc = "call"
    /\ \E filter_single_cells \in BOOLEAN :
          ld' = LoadReturn("load_gse52583_data",
                           load_gse52583_data(ld.files, ld.sra, filter_single_cells))
    /\ UNCHANGED <<pc, prev, args, df, aux, exc, bm>>

Load55291 ==
    /\ ld.pc = "call"
    /\ ld' = LoadReturn("load_dataset_5", load_dataset_5(ld.files, ld.sra))
    /\ UNCHANGED <<pc, prev, args, df, aux, exc, bm>>

Load65528 ==
    /\ ld.pc = "call"
    /\ ld' = LoadReturn("load_gse65528_data", load_gse65528_data(ld.files, ld.sra))
    /\ UNCHANGED <<pc, prev, args, df, aux, exc, bm>>

Load74596 ==
    /\ ld.pc = "call"
    /\ ld' = LoadReturn("load_gse74596_data", load_gse74596_data(ld.files, ld.sra))
    /\ UNCHANGED <<pc, prev, args, df, aux, exc, bm>>

NextLoad == Load42268 \/ Load45719 \/ Load52583 \/ Load55291 \/ Load65528 \/ Load74596

SpecLoad == InitLoad /\ [][NextLoad]_vars

(***************************************************************************)
(* clean_and_validate_df (GSE41265).  A cell of the raw table is a number, *)
(* a missing value (NaN) or a text that is not a number; after the         *)
(* conversion to float a cell is a number or NaN.                          *)
(***************************************************************************)
\* Most rows of a raw table.
MaxRows == 3

\* Row labels of the raw tables, 'GENE' being the default index_name, with
\* their rank in the sort order of the labels (groupby sorts its keys).
CleanLabels == {"Actb", "GENE", "Gapdh"}

LabelRank(l) == CASE l = "Actb" -> 1 [] l = "GENE" -> 2 [] l = "Gapdh" -> 3

Num(n) == [kind |-> "num", v |-> n]

NaN == [kind |-> "nan", v |-> 0]

Text == [kind |-> "text", v |-> 0]

\* Rows of a raw table with two sample columns.
RawRows == {<<Num(1), Num(2)>>, <<NaN, Num(1)>>, <<Text, NaN>>, <<Num(2), Text>>}

\* df_clean.drop(index_name, axis=0): every row with that label goes.
DropLabel(d, index_name) ==
    SelectRows(d, [i \in 1..Len(d.index) |-> d.index[i] # index_name])

\* df_clean.astype(float) raises ValueError on a text that is not a number.
AsTypeFloatRaises(d) ==
    \E i \in 1..Len(d.index), j \in 1..Len(d.columns) : d.values[i][j].kind = "text"

\* df_clean.apply(pd.to_numeric, errors='coerce'): such a text becomes NaN.
ToNumericCoerce(d) ==
    [d EXCEPT !.values = [i \in 1..Len(d.index) |->
                            [j \in 1..Len(d.columns) |->
                                IF d.values[i][j].kind = "text" THEN NaN
                                ELSE d.values[i][j]]]]

\* The labels of S in sort order.
SortedLabels(S) ==
    CHOOSE q \in [1..Cardinality(S) -> S] :
        \A i, j \in 1..Cardinality(S) : i < j => LabelRank(q[i]) < LabelRank(q[j])

\* groupby(...).first() for groupby(...).sum(): the first row of each label.
GroupBySum_First(d) ==
    LET keys == SortedLabels(Range(d.index))
    IN  [d EXCEPT !.index  = keys,
                  !.values = [k \in 1..Len(keys) |->
                                d.values[PositionsOf(d.index, keys[k])[1]]]]

\* df_clean.groupby(df_clean.index).sum(): one row per label, labels sorted,
\* each column summed over the rows of the label, NaN skipped (the sum of no
\* number is 0).
GroupBySum(d) ==
    LET keys == SortedLabels(Range(d.index))
        Val(c) == IF c.kind = "num" THEN c.v ELSE 0
    IN  [d EXCEPT !.index  = keys,
                  !.values = [k \in 1..Len(keys) |->
                                LET pos == PositionsOf(d.index, keys[k])
                                IN  [j \in 1..Len(d.columns) |->
                                        Num(SeqSum([x \in 1..Len(pos) |->
                                                Val(d.values[pos[x]][j])]))]]]

\* df_clean.isnull().values.any()
AnyNull(d) ==
    \E i \in 1..Len(d.index), j \in 1..Len(d.columns) : d.values[i][j].kind = "nan"

\* df_clean.fillna(0)
FillNa0(d) ==
    [d EXCEPT !.values = [i \in 1..Len(d.index) |->
                            [j \in 1..Len(d.columns) |->
                                IF d.values[i][j].kind = "nan" THEN Num(0)
                                ELSE d.values[i][j]]]]

\* Returns the cleaned table (df) and the caller's table as the call leaves
\* it (input): every step works on the copy or on a new table.
clean_and_validate_df(d, index_name) ==
    LET df_copy   == d
        dropped   == IF index_name \in Range(df_copy.index)
                     THEN DropLabel(df_copy, index_name) ELSE df_copy
        as_float  == IF AsTypeFloatRaises(dropped)
                     THEN ToNumericCoerce(dropped) ELSE dropped
        summed    == IF HasDuplicates(as_float.index)
                     THEN GroupBySum(as_float) ELSE as_float
        filled    == IF AnyNull(summed) THEN FillNa0(summed) ELSE summed
    IN  [input |-> d, df |-> filled]

\* Raw tables: up to MaxRows rows with labels that may repeat.
RawTables ==
    UNION {{[index   |-> l,
             columns |-> <<SampleLabel(1), SampleLabel(2)>>,
             values  |-> v,
             unit    |-> "1"] : l \in [1..n -> CleanLabels], v \in [1..n -> RawRows]}
           : n \in 0..MaxRows}

InitClean ==
    /\ pc = "dirty"
    /\ df \in RawTables
    /\ prev = EmptyDataFrame
    /\ args = NoCall
    /\ aux = EmptyDataFrame
    /\ exc = FALSE
    /\ ld = Idle
    /\ bm = Idle

\* clean_and_validate_df on a raw table; aux is the caller's table after the
\* call.
Clean ==
    /\ pc = "dirty"
    /\ \E index_name \in {"GENE", "Actb"} :
          LET r == clean_and_validate_df(df, index_name)
          IN  /\ args' = [op |-> "clean_and_validate_df", index_name |-> index_name]
              /\ df' = r.df
              /\ aux' = r.input
    /\ prev' = df
    /\ pc' = "cleaned"
    /\ UNCHANGED <<exc, ld, bm>>

\* clean_and_validate_df on its own output, with the same index_name.
CleanAgain ==
    /\ pc = "cleaned"
    /\ df' = clean_and_validate_df(df, args.index_name).df
    /\ prev' = df
    /\ pc' = "recleaned"
    /\ UNCHANGED <<args, aux, exc, ld, bm>>

NextClean == Clean \/ CleanAgain

SpecClean == InitClean /\ [][NextClean]_vars

(***************************************************************************)
(* C1.  Every loader that returns normally returns aligned tables: the     *)
(* metadata index is the sequence of the matrix's column labels, each      *)
(* exactly once and in the same order.                                     *)
(***************************************************************************)
C1_LoadersAligned == ld.pc = "returned" => ld.meta_index = ld.columns

(***************************************************************************)
(* Properties of the pipeline stages.  In a state reached by a stage, prev *)
(* is the stage's input, args its arguments, df and aux what it returned.  *)
(* The properties are stated on labels and values, not with the operators  *)
(* that compute the stages.                                                *)
(***************************************************************************)
\* The value of d at row label r and column label c (labels unique).
At(d, r, c) ==
    LET i == CHOOSE i \in 1..Len(d.index) : d.index[i] = r
        j == CHOOSE j \in 1..Len(d.columns) : d.columns[j] = c
    IN  d.values[i][j]

\* The samples of d with at least min_genes_per_sample genes above min_tpm.
PassingSamples(d, a) ==
    {s \in Range(d.columns) :
        Cardinality({g \in Range(d.index) : At(d, g, s) > a.min_tpm})
            >= a.min_genes_per_sample}

\* The genes of d above min_tpm in at least min_samples_per_gene of samples.
PassingGenes(d, a, samples) ==
    {g \in Range(d.index) :
        Cardinality({s \in samples : At(d, g, s) > a.min_tpm})
            >= a.min_samples_per_gene}

\* out holds exactly the given samples and genes of in, each once, with the
\* values of in.
KeepsExactly(in, out, samples, genes) ==
    /\ Range(out.columns) = samples
    /\ Len(out.columns) = Cardinality(samples)
    /\ Range(out.index) = genes
    /\ Len(out.index) = Cardinality(genes)
    /\ \A g \in genes, s \in samples : At(out, g, s) = At(in, g, s)

\* C2 as stated.  For every non-empty input and all thresholds the filter
\* keeps exactly the samples with at least min_genes_per_sample genes above
\* min_tpm, and exactly the genes above min_tpm in at least
\* min_samples_per_gene of the kept samples, values unchanged.
C2_KeepsExactlyPassing ==
    pc = "qc" /\ ~IsEmpty(prev) =>
        KeepsExactly(prev, df, PassingSamples(prev, args),
                     PassingGenes(prev, args, PassingSamples(prev, args)))

\* C2, amended.  When at least one sample passes the sample threshold the
\* filter keeps exactly the passing samples and exactly the genes above
\* min_tpm in at least min_samples_per_gene of them, values unchanged; when
\* no sample passes it returns the table without any gene or sample,
\* whatever min_samples_per_gene is.
C2_KeepsExactlyPassingOrNothing ==
    pc = "qc" /\ ~IsEmpty(prev) =>
        IF PassingSamples(prev, args) # {}
        THEN KeepsExactly(prev, df, PassingSamples(prev, args),
                          PassingGenes(prev, args, PassingSamples(prev, args)))
        ELSE df = EmptyDataFrame

\* A filter that dropped a sample and a gene and kept a sample and a gene.
C2_Witness ==
    /\ pc = "qc"
    /\ 0 < Len(df.columns) /\ Len(df.columns) < Len(prev.columns)
    /\ 0 < Len(df.index) /\ Len(df.index) < Len(prev.index)

\* The filter applied to its own output with the same thresholds.
Refilter == filter_tpm_matrix(df, args.min_tpm, args.min_genes_per_sample,
                              args.min_samples_per_gene).df

\* The samples of d that have min_genes_per_sample genes above min_tpm
\* among the genes of d.
StillPassing(d, a) == PassingSamples(d, a) = Range(d.columns)

\* C3 as stated.  A non-empty matrix returned by the filter is a fixed point:
\* the filter applied again with the same thresholds returns it unchanged.
C3_FixedPoint == pc = "qc" /\ ~IsEmpty(df) => Refilter = df

\* C3, amended.  In a non-empty matrix returned by the filter every gene is
\* above min_tpm in at least min_samples_per_gene of the returned samples,
\* and every sample has at least min_genes_per_sample genes above min_tpm
\* among the genes of the input (not necessarily among the returned genes);
\* the filter applied again returns the matrix unchanged if every returned
\* sample still has that many among the returned genes.
C3_FixedPointIfSamplesStillPass ==
    pc = "qc" /\ ~IsEmpty(df) =>
        /\ PassingGenes(df, args, Range(df.columns)) = Range(df.index)
        /\ Range(df.columns) \subseteq PassingSamples(prev, args)
        /\ StillPassing(df, args) => Refilter = df

\* The filter removed something and its output is a fixed point.
C3_Witness ==
    /\ pc = "qc"
    /\ ~IsEmpty(df)
    /\ df # prev
    /\ StillPassing(df, args)
    /\ Refilter = df

\* What the stage that led to the current state returned is empty.
StageResultEmpty ==
    CASE pc \in {"qc", "log", "hvg", "scaled"} -> IsEmpty(df)
      [] pc = "pca" -> /\ IsEmpty(df)
                       /\ aux.explained_variance_ratio = <<>>
                       /\ aux.pca = "None"
      [] pc = "bench" -> bm.ret.board = <<>>
      [] OTHER -> TRUE

\* C4.  No stage raises, a stage given an empty matrix returns an empty
\* result, and the filter returns an empty matrix when no sample or no gene
\* passes: once a matrix is empty, every later stage of
\* QC -> log -> HVG -> scale -> PCA -> benchmark returns an empty result.
C4_EmptyPropagates ==
    /\ ~exc
    /\ pc # "raw" /\ IsEmpty(prev) => StageResultEmpty
    /\ pc = "qc" /\ ~IsEmpty(prev)
          /\ (\/ PassingSamples(prev, args) = {}
              \/ PassingGenes(prev, args, PassingSamples(prev, args)) = {})
          => IsEmpty(df)

\* The benchmark reached with the empty PCA table, metadata and a target at
\* hand, returning the empty leaderboard.
C4_Witness ==
    /\ pc = "bench"
    /\ IsEmpty(prev)
    /\ bm.meta_index # <<>>
    /\ bm.ret.valid_targets # <<>>
    /\ bm.ret.board = <<>>

\* The dispersion of gene row h is strictly greater than that of gene row g
\* (rows of one matrix): with n values, sum S and D = n * sum of squares -
\* S^2, the dispersion is D / ((n - 1) * (S + n * 1e-9)) up to the unit, and
\* 0 for n = 1.
GreaterDispersion(h, g) ==
    /\ Len(h) > 1
    /\ LET Dh == RowD(h)
           Dg == RowD(g)
       IN  \/ Dh * RowS(g) > Dg * RowS(h)
           \/ Dh * RowS(g) = Dg * RowS(h) /\ Dh > Dg

RowOf(d, g) == d.values[CHOOSE i \in 1..Len(d.index) : d.index[i] = g]

\* C5.  On a non-empty input with unique gene labels the selection returns
\* min(n_top_genes, number of genes) genes, with all sample columns and the
\* values unchanged, and no unselected gene has a strictly greater
\* dispersion than a selected one.
C5_TopDispersion ==
    pc = "hvg" /\ ~IsEmpty(prev) =>
        LET chosen == Range(df.index)
            n      == IF args.n_top_genes < Len(prev.index)
                      THEN args.n_top_genes ELSE Len(prev.index)
        IN  /\ Len(df.index) = n
            /\ Cardinality(chosen) = n
            /\ chosen \subseteq Range(prev.index)
            /\ df.columns = prev.columns
            /\ \A g \in chosen, s \in Range(df.columns) : At(df, g, s) = At(prev, g, s)
            /\ \A g \in chosen, h \in Range(prev.index) \ chosen :
                  ~GreaterDispersion(RowOf(prev, h), RowOf(prev, g))

\* A selection that left out a gene of strictly smaller dispersion and took
\* a gene that is not the first row.
C5_Witness ==
    /\ pc = "hvg"
    /\ ~IsEmpty(prev)
    /\ Len(df.index) = 1
    /\ Len(prev.index) = 2
    /\ df.index[1] = prev.index[2]
    /\ GreaterDispersion(prev.values[2], prev.values[1])

\* A scaled row has mean 0: its entries num / sqrt(den2) share den2.
RowMeanZero(row) == SeqSum([j \in 1..Len(row) |-> row[j].num]) = 0

\* A scaled row has (population) variance 1, given mean 0:
\* sum of num^2 / den2 = n.
RowUnitVariance(row) ==
    SeqSum([j \in 1..Len(row) |-> row[j].num * row[j].num]) = Len(row) * row[1].den2

RowAllZero(row) == \A j \in 1..Len(row) : row[j].num = 0

RowConstant(row) == \A j, k \in 1..Len(row) : row[j] = row[k]

C7_PcaShape ==
    pc = "pca" =>
        IF IsEmpty(prev)
        THEN /\ IsEmpty(df)
             /\ Len(aux.explained_variance_ratio) = 0
             /\ aux.pca = "None"
        ELSE LET cap == {args.n_components, Len(prev.columns), Len(prev.index)}
                 n   == CHOOSE x \in cap : \A y \in cap : x <= y
             IN  /\ ~exc
                 /\ df.index = prev.columns
                 /\ df.columns = [i \in 1..n |-> PCName(i)]
                 /\ \A i \in 1..Len(df.index) : Len(df.values[i]) = n
                 /\ Len(aux.explained_variance_ratio) = n
                 /\ aux.pca # "None"

\* A PCA whose number of components was cut by the number of samples.
C7_Witness ==
    /\ pc = "pca"
    /\ ~IsEmpty(prev)
    /\ Len(prev.columns) < Len(prev.index)
    /\ Len(prev.columns) < args.n_components
    /\ Len(df.columns) = Len(prev.columns)

(***************************************************************************)
(* Properties of run_clustering_benchmark.  In a state with                *)
(* bm.pc = "returned", bm holds the arguments of the call, the library's   *)
(* behaviour bm.lib and the result bm.ret.                                 *)
(***************************************************************************)
\* The sample IDs that occur in both indexes.
CommonIds == Range(bm.pca_index) \cap Range(bm.meta_index)

\* The targets of target_cols that are columns of the metadata.
PresentTargets == Range(bm.target_cols) \cap Range(bm.meta_columns)

\* C8.  The benchmark aligns by intersection: the rows it clusters are
\* exactly the samples whose IDs are in both indexes, each once; the
\* ground-truth rows it scores them against carry the same sample IDs
\* position by position; and it warns exactly when a sample of pca_df is
\* missing from the metadata.
C8_AlignedByIntersection ==
    bm.pc = "returned" /\ PresentTargets # {} =>
        /\ Range(bm.ret.clustered) = CommonIds
        /\ Len(bm.ret.clustered) = Cardinality(CommonIds)
        /\ bm.ret.truth = bm.ret.clustered
        /\ bm.ret.warned <=> Range(bm.pca_index) \ Range(bm.meta_index) # {}

\* The fits that went through: the models the library fitted and scored
\* without raising.
Succeeded == {key \in DOMAIN bm.lib : ~bm.lib[key].raises}

\* The rows of the leaderboard for method m and cluster number k.
RowsFor(m, k) ==
    Cardinality({i \in 1..Len(bm.ret.board) :
                    bm.ret.board[i].Method = Methods[m] /\ bm.ret.board[i].k = k})

SortedByAmi(t) ==
    \A i, j \in 1..Len(bm.ret.board) :
        i < j => bm.ret.board[i].AMI[t] >= bm.ret.board[j].AMI[t]

\* The first entry of target_cols that is a column of the metadata.
FirstPresentTarget ==
    bm.target_cols[CHOOSE i \in 1..Len(bm.target_cols) :
                      /\ bm.target_cols[i] \in Range(bm.meta_columns)
                      /\ \A j \in 1..(i - 1) : bm.target_cols[j] \notin Range(bm.meta_columns)]

ScoresPresentTargets ==
    \A i \in 1..Len(bm.ret.board) :
        /\ DOMAIN bm.ret.board[i].AMI = PresentTargets
        /\ DOMAIN bm.ret.board[i].ARI = PresentTargets

\* The call returned the empty table and never called fit_predict.
EmptyWithoutFitting == bm.ret.board = <<>> /\ ~bm.ret.fitted

\* C11 as stated.  The benchmark returns an empty table without fitting a
\* model if and only if no name of target_cols is a column of the metadata;
\* when a target is present, the absent targets are skipped and all present
\* targets are scored.
C11_EmptyIffNoTarget ==
    bm.pc = "returned" =>
        /\ EmptyWithoutFitting <=> PresentTargets = {}
        /\ PresentTargets # {} => ScoresPresentTargets

\* C11, amended.  The benchmark returns an empty table without fitting a
\* model if and only if no name of target_cols is a column of the metadata
\* or n_clusters_range is empty; when a target is present, every row carries
\* the scores of exactly the present targets.
C11_EmptyIffNoTargetOrNoK ==
    bm.pc = "returned" =>
        /\ EmptyWithoutFitting <=>
              (PresentTargets = {} \/ bm.n_clusters_range = <<>>)
        /\ PresentTargets # {} => ScoresPresentTargets

\* A call with cluster numbers and targets of which none is a column of the
\* metadata: the empty table, nothing fitted.
C11_Witness ==
    /\ bm.pc = "returned"
    /\ bm.target_cols # <<>>
    /\ bm.n_clusters_range # <<>>
    /\ PresentTargets = {}
    /\ EmptyWithoutFitting

(***************************************************************************)
(* Properties of clean_and_validate_df.  In a state with pc = "cleaned",   *)
(* prev is the raw table, df the cleaned table and aux the caller's table  *)
(* after the call; with pc = "recleaned", prev is the cleaned table and df *)
(* what the function returned for it.                                      *)
(***************************************************************************)
\* A raw cell as a number: a missing value or a text counts as 0.
CountedAs(c) == IF c.kind = "num" THEN c.v ELSE 0

\* The sum of column j of d over the rows labelled g.
LabelSum(d, g, j) ==
    SeqSum([r \in 1..Len(d.index) |->
                IF d.index[r] = g THEN CountedAs(d.values[r][j]) ELSE 0])

\* C12.  For every input the cleaned table has no duplicate gene label, no
\* missing value and no row labelled index_name; it has one row for every
\* other label of the input, holding the column-wise sum of the input rows
\* with that label (a text or a missing value counted as 0); the input table
\* is left as it was; and the function returns its own output unchanged.
C12_CleanedUniqueIdempotent ==
    /\ pc = "cleaned" =>
          /\ ~HasDuplicates(df.index)
          /\ args.index_name \notin Range(df.index)
          /\ Range(df.index) = Range(prev.index) \ {args.index_name}
          /\ df.columns = prev.columns
          /\ \A i \in 1..Len(df.index), j \in 1..Len(df.columns) :
                /\ df.values[i][j].kind = "num"
                /\ df.values[i][j].v = LabelSum(prev, df.index[i], j)
          /\ aux = prev
    /\ pc = "recleaned" => df = prev

\* A raw table with a row labelled index_name and two rows sharing another
\* label, one of them with a text, cleaned to one row and cleaned again.
C12_Witness ==
    /\ pc = "recleaned"
    /\ args.index_name \in Range(aux.index)
    /\ \E i, j \in 1..Len(aux.index) :
          /\ i < j
          /\ aux.index[i] = aux.index[j]
          /\ aux.index[i] # args.index_name
          /\ aux.values[i][1].kind = "text"
          /\ aux.values[j][1].kind = "num"
    /\ Len(df.index) = 1
    /\ df = prev

====
